---- MODULE Spec2Model ----
(***************************************************************************)
(* Storage layer of FinanceTracker (server/storage.ts, server/db.ts).      *)
(*                                                                         *)
(* The two implementations of IStorage, MemStorage and PostgresStorage,    *)
(* are modelled side by side: every interface call is issued to both with  *)
(* the same arguments, and the result of each is recorded (memRes, pgRes). *)
(* MemStorage keeps four Maps (modelled as sequences of records in         *)
(* insertion order, which is a Map's iteration order) and four counters.   *)
(* PostgresStorage keeps four tables (sets of rows named by their columns) *)
(* and the four SERIAL sequences behind their id columns.                  *)
(***************************************************************************)
EXTENDS Integers, Sequences, FiniteSets, TLC

\* ------------------------------------------------------------------ bounds
MaxUsers == 2
MaxProfiles == 2
MaxMessages == 3
MaxGoals == 2
MaxTime == 2
\* callers with an update in flight at the same time
MaxCallers == 2

\* ------------------------------------------------------------ input values
\* `undefined` (the not-found result) where a record is expected
Null == [undefined |-> TRUE]

\* a Date object holding the instant t (milliseconds since the epoch)
Date(t) == [time |-> t]
\* Date.prototype.getTime
GetTime(d) == d.time

Usernames == {"alice", "bob"}
Emails == {"a@x.com", "b@x.com"}
Passwords == {"h1", "h2"}
\* a username and an email that no createUser call ever stores
NeverUsername == "carol"
NeverEmail == "c@x.com"

\* InsertUser (shared/schema): the fields storage.ts reads from it
InsertUsers == [username : Usernames, email : Emails, password : Passwords]
\* the two accounts the profile, message and goal runs register
OwnerInputs ==
    { [username |-> "alice", email |-> "a@x.com", password |-> "h1"],
      [username |-> "bob", email |-> "b@x.com", password |-> "h1"] }

\* the owning-user ids a caller passes: every id ever assigned, one never assigned
UserIds == 1..(MaxUsers + 1)
\* the owners of the records a caller creates
OwnerIds == 1..2

\* InsertFinancialProfile
InsertProfiles ==
    [userId : OwnerIds, monthlyIncome : {"1000.00"}, housingExpense : {"300.00"},
     transportExpense : {"50.00"}, foodExpense : {"100.00"}, otherExpenses : {"0.00"},
     savingsGoal : {"200.00"}, retirementGoal : {"100.00"}, riskTolerance : {"low"}]
\* Partial<InsertFinancialProfile>: the fields present are the function's domain
ProfilePatches ==
    { [monthlyIncome |-> "2000.00"], [riskTolerance |-> "high"],
      [monthlyIncome |-> "1000.00", riskTolerance |-> "low"] }

\* InsertChatMessage
InsertMessages == [userId : OwnerIds, message : {"hello"}, isUserMessage : {1}]
\* the optional limit argument of getChatMessages: absent, or a number
NoLimit == [given |-> FALSE, n |-> 0]
Limit(n) == [given |-> TRUE, n |-> n]
Limits == {NoLimit} \cup {Limit(n) : n \in -1..MaxMessages}

\* InsertFinancialGoal
InsertGoals ==
    [userId : OwnerIds, title : {"Emergency Fund"}, targetAmount : {"1000.00"},
     currentAmount : {"0.00"}, deadline : {"none"}, category : {"savings"}]
\* Partial<InsertFinancialGoal>
GoalPatches ==
    { [title |-> "Car"], [currentAmount |-> "500.00"],
      [title |-> "Emergency Fund", currentAmount |-> "0.00"] }

VARIABLES
    now,                \* the clock read by new Date() and CURRENT_TIMESTAMP (ms)
    \* MemStorage
    users,              \* Map<number, User>
    financialProfiles,  \* Map<number, FinancialProfile>
    chatMessages,       \* Map<number, ChatMessage>
    financialGoals,     \* Map<number, FinancialGoal>
    userIdCounter,
    profileIdCounter,
    messageIdCounter,
    goalIdCounter,
    \* PostgresStorage: the database behind db
    users_tbl,                  \* table users
    financial_profiles_tbl,     \* table financial_profiles
    chat_messages_tbl,          \* table chat_messages
    financial_goals_tbl,        \* table financial_goals
    users_id_seq,               \* the SERIAL sequences behind the id columns
    financial_profiles_id_seq,
    chat_messages_id_seq,
    financial_goals_id_seq,
    \* the last interface call and what each backend answered
    call,
    memRes,
    pgRes,
    \* async calls suspended at an await, per caller and backend
    memPending,
    pgPending,
    \* history, per backend
    memCreated,         \* users: the id and the input of every createUser that returned
    pgCreated,
    memIssued,          \* per entity type, the ids assigned so far, in order
    pgIssued,
    memDeleted,         \* goal ids for which deleteFinancialGoal returned true
    pgDeleted,
    memRedeleted,       \* ... and returned true again for an id already deleted
    pgRedeleted,
    memRace,            \* the suspended update that went on in the last step, if one did
    pgRace,
    \* the process
    USE_MEMORY_STORAGE, \* process.env.USE_MEMORY_STORAGE
    storage,            \* the exported handle: the backend the callers reach
    \* aiService
    OPENAI_API_KEY,     \* process.env.OPENAI_API_KEY
    DEEPSEEK_API_KEY,   \* process.env.DEEPSEEK_API_KEY
    aiCall,             \* the last generateFinanceResponse call and how the
                        \* request to the external API settled
    aiRes               \* what the call returned or raised

memUserVars == <<users, userIdCounter>>
memProfileVars == <<financialProfiles, profileIdCounter>>
memMessageVars == <<chatMessages, messageIdCounter>>
memGoalVars == <<financialGoals, goalIdCounter>>
pgUserVars == <<users_tbl, users_id_seq>>
pgProfileVars == <<financial_profiles_tbl, financial_profiles_id_seq>>
pgMessageVars == <<chat_messages_tbl, chat_messages_id_seq>>
pgGoalVars == <<financial_goals_tbl, financial_goals_id_seq>>

userVars == <<memUserVars, pgUserVars>>
profileVars == <<memProfileVars, pgProfileVars>>
messageVars == <<memMessageVars, pgMessageVars>>
goalVars == <<memGoalVars, pgGoalVars>>
resVars == <<call, memRes, pgRes>>
pendingVars == <<memPending, pgPending>>
raceVars == <<memRace, pgRace>>
createdVars == <<memCreated, pgCreated>>
issuedVars == <<memIssued, pgIssued>>
deletedVars == <<memDeleted, pgDeleted, memRedeleted, pgRedeleted>>
histVars == <<createdVars, issuedVars, deletedVars>>
storageVars == <<USE_MEMORY_STORAGE, storage>>
keyVars == <<OPENAI_API_KEY, DEEPSEEK_API_KEY>>
aiVars == <<aiCall, aiRes>>
processVars == <<storageVars, keyVars, aiVars>>
vars == <<now, userVars, profileVars, messageVars, goalVars, resVars, pendingVars,
          raceVars, histVars, processVars>>

\* ------------------------------------------------------------ result values
Value(v) == [kind |-> "value", val |-> v]
Undefined == [kind |-> "undefined", val |-> Null]
Throw(e) == [kind |-> "throw", val |-> e]
NoResult == [kind |-> "none", val |-> Null]

\* `x ? x : undefined`
OrUndefined(v) == IF v = Null THEN Undefined ELSE Value(v)

\* ------------------------------------------------------ JS Map and Array
\* Map.prototype.has
MapHas(m, id) == \E i \in 1..Len(m) : m[i].id = id

\* Map.prototype.get
MapGet(m, id) ==
    IF MapHas(m, id) THEN m[CHOOSE i \in 1..Len(m) : m[i].id = id] ELSE Null

\* Map.prototype.set: an existing key keeps its place, a new key is appended
MapSet(m, id, rec) ==
    IF MapHas(m, id)
    THEN [i \in 1..Len(m) |-> IF m[i].id = id THEN rec ELSE m[i]]
    ELSE Append(m, rec)

\* Map.prototype.delete: the map without the key (its result is MapHas before)
MapDelete(m, id) == SelectSeq(m, LAMBDA r : r.id # id)

\* Array.prototype.find: the first element satisfying the test, else undefined
Find(s, field, value) ==
    LET hits == SelectSeq(s, LAMBDA element : element[field] = value)
    IN IF Len(hits) > 0 THEN hits[1] ELSE Null

\* Array.prototype.sort with the comparator (a, b) => key of a - key of b, key[i]
\* being the key of s[i]: stable, so an element's place is the number of elements
\* with a smaller key, or with an equal key and an earlier place in s
SortBy(s, key) ==
    LET n == Len(s)
        rank(i) == 1 + Cardinality({j \in 1..n :
                        \/ key[j] < key[i]
                        \/ (key[j] = key[i] /\ j < i)})
    IN [p \in 1..n |-> s[CHOOSE i \in 1..n : rank(i) = p]]

\* a.<field>.getTime() of every element a of s
TimesOf(s, field) == [i \in 1..Len(s) |-> GetTime(s[i][field])]

\* Array.prototype.slice(start): a negative start counts from the end
Slice(s, start) ==
    LET n == Len(s)
        from == IF start < 0
                THEN (IF n + start > 0 THEN n + start ELSE 0)
                ELSE (IF start < n THEN start ELSE n)
    IN SubSeq(s, from + 1, n)

\* an optional number used as a condition, `if (limit)`: undefined and 0 are false
Truthy(x) == x.given /\ x.n # 0

\* { ...a, ...b }: the fields of b over those of a
Spread(a, b) ==
    [f \in DOMAIN a \cup DOMAIN b |-> IF f \in DOMAIN b THEN b[f] ELSE a[f]]

\* =========================================================== MemStorage
\* ---- users
MemGetUser(id) ==
    /\ memRes' = OrUndefined(MapGet(users, id))
    /\ UNCHANGED memUserVars

MemGetUserByUsername(username) ==
    /\ memRes' = OrUndefined(Find(users, "username", username))
    /\ UNCHANGED memUserVars

MemGetUserByEmail(email) ==
    /\ memRes' = OrUndefined(Find(users, "email", email))
    /\ UNCHANGED memUserVars

MemCreateUser(insertUser) ==
    LET id == userIdCounter
        user == Spread(insertUser, [id |-> id, createdAt |-> Date(now)])
    IN /\ userIdCounter' = userIdCounter + 1
       /\ users' = MapSet(users, id, user)
       /\ memRes' = Value(user)

\* ---- financial profiles
\* the body of getFinancialProfile: the first profile of the user in the Map
MemFindProfile(userId) ==
    Find(financialProfiles, "userId", userId)

MemGetFinancialProfile(userId) ==
    /\ memRes' = OrUndefined(MemFindProfile(userId))
    /\ UNCHANGED memProfileVars

MemCreateFinancialProfile(insertProfile) ==
    LET id == profileIdCounter
        profile == Spread(insertProfile, [id |-> id, updatedAt |-> Date(now)])
    IN /\ profileIdCounter' = profileIdCounter + 1
       /\ financialProfiles' = MapSet(financialProfiles, id, profile)
       /\ memRes' = Value(profile)

\* updateFinancialProfile without `updatedAt: new Date()`
MemUpdateFinancialProfileResume_NoRefresh(existingProfile, updateData) ==
    IF existingProfile = Null
    THEN /\ memRes' = Undefined
         /\ UNCHANGED memProfileVars
    ELSE LET updatedProfile == Spread(existingProfile, updateData)
         IN /\ financialProfiles' =
                    MapSet(financialProfiles, existingProfile.id, updatedProfile)
            /\ memRes' = Value(updatedProfile)
            /\ UNCHANGED profileIdCounter

\* updateFinancialProfile from its await on: existingProfile is what the lookup
\* before the await returned
MemUpdateFinancialProfileResume(existingProfile, updateData) ==
    IF existingProfile = Null
    THEN /\ memRes' = Undefined
         /\ UNCHANGED memProfileVars
    ELSE LET updatedProfile ==
                 Spread(Spread(existingProfile, updateData), [updatedAt |-> Date(now)])
         IN /\ financialProfiles' =
                    MapSet(financialProfiles, existingProfile.id, updatedProfile)
            /\ memRes' = Value(updatedProfile)
            /\ UNCHANGED profileIdCounter

\* updateFinancialProfile when nothing else runs at its await
MemUpdateFinancialProfile(userId, updateData) ==
    MemUpdateFinancialProfileResume(MemFindProfile(userId), updateData)

\* ---- chat messages
MemGetChatMessages(userId, limit) ==
    LET filtered == SelectSeq(chatMessages, LAMBDA message : message.userId = userId)
        userMessages == SortBy(filtered, TimesOf(filtered, "timestamp"))
    IN /\ memRes' = (IF Truthy(limit)
                     THEN Value(Slice(userMessages, -limit.n))
                     ELSE Value(userMessages))
       /\ UNCHANGED memMessageVars

\* createChatMessage keeping only the message it creates
MemCreateChatMessage_KeepsLast(insertMessage) ==
    LET id == messageIdCounter
        message == Spread(insertMessage, [id |-> id, timestamp |-> Date(now)])
    IN /\ messageIdCounter' = messageIdCounter + 1
       /\ chatMessages' = <<message>>
       /\ memRes' = Value(message)

MemCreateChatMessage(insertMessage) ==
    LET id == messageIdCounter
        message == Spread(insertMessage, [id |-> id, timestamp |-> Date(now)])
    IN /\ messageIdCounter' = messageIdCounter + 1
       /\ chatMessages' = MapSet(chatMessages, id, message)
       /\ memRes' = Value(message)

\* ---- financial goals
MemGetFinancialGoals(userId) ==
    /\ LET filtered == SelectSeq(financialGoals, LAMBDA goal : goal.userId = userId)
       IN memRes' = Value(SortBy(filtered, TimesOf(filtered, "createdAt")))
    /\ UNCHANGED memGoalVars

\* getFinancialGoal taking the goal out of the Map
MemGetFinancialGoal_Takes(id) ==
    /\ memRes' = OrUndefined(MapGet(financialGoals, id))
    /\ financialGoals' = MapDelete(financialGoals, id)
    /\ UNCHANGED goalIdCounter

\* getFinancialGoal raising for an id the Map does not hold
MemGetFinancialGoal_ThrowsOnMissing(id) ==
    /\ memRes' = (IF MapHas(financialGoals, id) THEN Value(MapGet(financialGoals, id))
                  ELSE Throw("not_found"))
    /\ UNCHANGED memGoalVars

MemGetFinancialGoal(id) ==
    /\ memRes' = OrUndefined(MapGet(financialGoals, id))
    /\ UNCHANGED memGoalVars

\* createFinancialGoal taking the id from the size of the Map
MemCreateFinancialGoal_SizeId(insertGoal) ==
    LET id == Len(financialGoals) + 1
        goal == Spread(insertGoal, [id |-> id, createdAt |-> Date(now)])
    IN /\ goalIdCounter' = goalIdCounter + 1
       /\ financialGoals' = MapSet(financialGoals, id, goal)
       /\ memRes' = Value(goal)

MemCreateFinancialGoal(insertGoal) ==
    LET id == goalIdCounter
        goal == Spread(insertGoal, [id |-> id, createdAt |-> Date(now)])
    IN /\ goalIdCounter' = goalIdCounter + 1
       /\ financialGoals' = MapSet(financialGoals, id, goal)
       /\ memRes' = Value(goal)

\* updateFinancialGoal looking the goal up again after its await
MemUpdateFinancialGoalResume_Reread(id, existingGoal, updateData) ==
    IF ~MapHas(financialGoals, id)
    THEN /\ memRes' = Undefined
         /\ UNCHANGED memGoalVars
    ELSE LET updatedGoal == Spread(MapGet(financialGoals, id), updateData)
         IN /\ financialGoals' = MapSet(financialGoals, id, updatedGoal)
            /\ memRes' = Value(updatedGoal)
            /\ UNCHANGED goalIdCounter

\* updateFinancialGoal from its await on: existingGoal is what the lookup before
\* the await returned
MemUpdateFinancialGoalResume(id, existingGoal, updateData) ==
    IF existingGoal = Null
    THEN /\ memRes' = Undefined
         /\ UNCHANGED memGoalVars
    ELSE LET updatedGoal == Spread(existingGoal, updateData)
         IN /\ financialGoals' = MapSet(financialGoals, id, updatedGoal)
            /\ memRes' = Value(updatedGoal)
            /\ UNCHANGED goalIdCounter

\* updateFinancialGoal when nothing else runs at its await
MemUpdateFinancialGoal(id, updateData) ==
    MemUpdateFinancialGoalResume(id, MapGet(financialGoals, id), updateData)

\* deleteFinancialGoal answering true whether or not the goal was there
MemDeleteFinancialGoal_AlwaysTrue(id) ==
    /\ memRes' = Value(TRUE)
    /\ financialGoals' = MapDelete(financialGoals, id)
    /\ UNCHANGED goalIdCounter

MemDeleteFinancialGoal(id) ==
    /\ memRes' = Value(MapHas(financialGoals, id))
    /\ financialGoals' = MapDelete(financialGoals, id)
    /\ UNCHANGED goalIdCounter

\* ====================================================== PostgresStorage
\* shared/schema: the column each field of a record is stored in
UserCol ==
    [id |-> "id", username |-> "username", email |-> "email",
     password |-> "password_hash", createdAt |-> "created_at"]
ProfileCol ==
    [id |-> "id", userId |-> "user_id", monthlyIncome |-> "monthly_income",
     housingExpense |-> "housing_expense", transportExpense |-> "transport_expense",
     foodExpense |-> "food_expense", otherExpenses |-> "other_expenses",
     savingsGoal |-> "savings_goal", retirementGoal |-> "retirement_goal",
     riskTolerance |-> "risk_tolerance", updatedAt |-> "updated_at"]
MessageCol ==
    [id |-> "id", userId |-> "user_id", message |-> "message",
     isUserMessage |-> "is_user_message", timestamp |-> "timestamp"]
GoalCol ==
    [id |-> "id", userId |-> "user_id", title |-> "title",
     targetAmount |-> "target_amount", currentAmount |-> "current_amount",
     deadline |-> "deadline", category |-> "category", createdAt |-> "created_at"]

\* the column values written for the fields of `values` (insert .values, update .set)
ColumnsOf(col, values) ==
    [c \in {col[f] : f \in DOMAIN values} |->
        values[CHOOSE f \in DOMAIN values : col[f] = c]]

\* the record a selected or returned row is read as
RecordOf(col, row) == [f \in DOMAIN col |-> row[col[f]]]

\* the rows of a SELECT or RETURNING without ORDER BY, as the array the driver
\* hands back: the database fixes no order
Orders(rows) ==
    {result \in [1..Cardinality(rows) -> rows] :
        \A i, j \in 1..Cardinality(rows) : i # j => result[i] # result[j]}

\* user_id INTEGER REFERENCES users(id)
ReferencesUser(row) == \E u \in users_tbl : u.id = row.user_id

\* ---- users
PgGetUser(id) ==
    \E result \in Orders({r \in users_tbl : r.id = id}) :
        /\ pgRes' = (IF Len(result) > 0 THEN Value(RecordOf(UserCol, result[1]))
                     ELSE Undefined)
        /\ UNCHANGED pgUserVars

\* getUserByUsername raising when the select returns no row
PgGetUserByUsername_ThrowsOnNone(username) ==
    \E result \in Orders({r \in users_tbl : r.username = username}) :
        /\ pgRes' = (IF Len(result) > 0 THEN Value(RecordOf(UserCol, result[1]))
                     ELSE Throw("not_found"))
        /\ UNCHANGED pgUserVars

PgGetUserByUsername(username) ==
    \E result \in Orders({r \in users_tbl : r.username = username}) :
        /\ pgRes' = (IF Len(result) > 0 THEN Value(RecordOf(UserCol, result[1]))
                     ELSE Undefined)
        /\ UNCHANGED pgUserVars

PgGetUserByEmail(email) ==
    \E result \in Orders({r \in users_tbl : r.email = email}) :
        /\ pgRes' = (IF Len(result) > 0 THEN Value(RecordOf(UserCol, result[1]))
                     ELSE Undefined)
        /\ UNCHANGED pgUserVars

\* createUser writing the e-mail address into the credential column
PgCreateUser_WrongColumn(insertUser) ==
    LET row == [id |-> users_id_seq, username |-> insertUser.username,
                email |-> insertUser.email, password_hash |-> insertUser.email,
                created_at |-> Date(now)]
        taken == \E r \in users_tbl :
                    r.username = row.username \/ r.email = row.email
    IN /\ users_id_seq' = users_id_seq + 1
       /\ IF taken
          THEN /\ users_tbl' = users_tbl
               /\ pgRes' = Throw("unique_violation")
          ELSE /\ users_tbl' = users_tbl \cup {row}
               /\ pgRes' = Value(RecordOf(UserCol, row))

\* INSERT INTO users ... RETURNING *. The SERIAL default draws the next id before
\* the UNIQUE constraints are checked and a failed insert does not give it back;
\* the database error is logged and re-thrown.
PgCreateUser(insertUser) ==
    LET row == [id |-> users_id_seq, username |-> insertUser.username,
                email |-> insertUser.email, password_hash |-> insertUser.password,
                created_at |-> Date(now)]
        taken == \E r \in users_tbl :
                    r.username = row.username \/ r.email = row.email
    IN /\ users_id_seq' = users_id_seq + 1
       /\ IF taken
          THEN /\ users_tbl' = users_tbl
               /\ pgRes' = Throw("unique_violation")
          ELSE /\ users_tbl' = users_tbl \cup {row}
               /\ pgRes' = Value(RecordOf(UserCol, row))

\* ---- financial profiles
\* the rows getFinancialProfile selects
PgProfileRows(userId) == {r \in financial_profiles_tbl : r.user_id = userId}

\* getFinancialProfile's result[0], or Null for an empty result
PgFoundProfiles(userId) ==
    IF PgProfileRows(userId) = {} THEN {Null}
    ELSE {RecordOf(ProfileCol, r) : r \in PgProfileRows(userId)}

PgGetFinancialProfile(userId) ==
    \E profile \in PgFoundProfiles(userId) :
        /\ pgRes' = OrUndefined(profile)
        /\ UNCHANGED pgProfileVars

PgCreateFinancialProfile(insertProfile) ==
    LET profileData ==
            [userId |-> insertProfile.userId,
             monthlyIncome |-> insertProfile.monthlyIncome,
             housingExpense |-> insertProfile.housingExpense,
             transportExpense |-> insertProfile.transportExpense,
             foodExpense |-> insertProfile.foodExpense,
             otherExpenses |-> insertProfile.otherExpenses,
             savingsGoal |-> insertProfile.savingsGoal,
             retirementGoal |-> insertProfile.retirementGoal,
             riskTolerance |-> insertProfile.riskTolerance]
        row == Spread([id |-> financial_profiles_id_seq, updated_at |-> Date(now)],
                      ColumnsOf(ProfileCol, profileData))
    IN /\ financial_profiles_id_seq' = financial_profiles_id_seq + 1
       /\ IF ReferencesUser(row)
          THEN /\ financial_profiles_tbl' = financial_profiles_tbl \cup {row}
               /\ pgRes' = Value(RecordOf(ProfileCol, row))
          ELSE /\ financial_profiles_tbl' = financial_profiles_tbl
               /\ pgRes' = Throw("foreign_key_violation")

\* updateFinancialProfile writing back the whole profile it had selected
PgUpdateFinancialProfileResume_WholeRow(profile, userId, updateData) ==
    IF profile = Null
    THEN /\ pgRes' = Undefined
         /\ UNCHANGED pgProfileVars
    ELSE LET set == ColumnsOf(ProfileCol,
                              Spread(Spread(profile, updateData),
                                     [updatedAt |-> Date(now)]))
             hit == PgProfileRows(userId)
             updated == {Spread(r, set) : r \in hit}
         IN /\ financial_profiles_tbl' = (financial_profiles_tbl \ hit) \cup updated
            /\ \E result \in Orders(updated) :
                   pgRes' = (IF Len(result) > 0
                             THEN Value(RecordOf(ProfileCol, result[1]))
                             ELSE Undefined)
            /\ UNCHANGED financial_profiles_id_seq

\* updateFinancialProfile from the await of its getFinancialProfile on: profile
\* is what that select returned. One UPDATE ... WHERE user_id = userId RETURNING *
\* sets the columns of updateData and updated_at in every row of the user.
PgUpdateFinancialProfileResume(profile, userId, updateData) ==
    IF profile = Null
    THEN /\ pgRes' = Undefined
         /\ UNCHANGED pgProfileVars
    ELSE LET set == ColumnsOf(ProfileCol,
                              Spread(updateData, [updatedAt |-> Date(now)]))
             hit == PgProfileRows(userId)
             updated == {Spread(r, set) : r \in hit}
         IN /\ financial_profiles_tbl' = (financial_profiles_tbl \ hit) \cup updated
            /\ \E result \in Orders(updated) :
                   pgRes' = (IF Len(result) > 0
                             THEN Value(RecordOf(ProfileCol, result[1]))
                             ELSE Undefined)
            /\ UNCHANGED financial_profiles_id_seq

\* updateFinancialProfile when nothing else runs between its two statements
PgUpdateFinancialProfile(userId, updateData) ==
    \E profile \in PgFoundProfiles(userId) :
        PgUpdateFinancialProfileResume(profile, userId, updateData)

\* ---- chat messages
\* the comparator placing a missing timestamp after every other
TimeOrZero_NullLast(d) == IF d = Null THEN MaxTime + 1 ELSE GetTime(d)

\* a.timestamp ? a.timestamp.getTime() : 0
TimeOrZero(d) == IF d = Null THEN 0 ELSE GetTime(d)
TimesOrZeroOf(s, field) == [i \in 1..Len(s) |-> TimeOrZero(s[i][field])]

PgGetChatMessages(userId, limit) ==
    \E result \in Orders({r \in chat_messages_tbl : r.user_id = userId}) :
        LET messages == [i \in 1..Len(result) |-> RecordOf(MessageCol, result[i])]
            sortedMessages == SortBy(messages, TimesOrZeroOf(messages, "timestamp"))
        IN /\ pgRes' = (IF Truthy(limit) /\ limit.n > 0
                        THEN Value(Slice(sortedMessages, -limit.n))
                        ELSE Value(sortedMessages))
           /\ UNCHANGED pgMessageVars

PgCreateChatMessage(insertMessage) ==
    LET values == [userId |-> insertMessage.userId,
                   message |-> insertMessage.message,
                   isUserMessage |-> insertMessage.isUserMessage]
        row == Spread([id |-> chat_messages_id_seq, timestamp |-> Date(now)],
                      ColumnsOf(MessageCol, values))
    IN /\ chat_messages_id_seq' = chat_messages_id_seq + 1
       /\ IF ReferencesUser(row)
          THEN /\ chat_messages_tbl' = chat_messages_tbl \cup {row}
               /\ pgRes' = Value(RecordOf(MessageCol, row))
          ELSE /\ chat_messages_tbl' = chat_messages_tbl
               /\ pgRes' = Throw("foreign_key_violation")

\* ---- financial goals
PgGetFinancialGoals(userId) ==
    \E result \in Orders({r \in financial_goals_tbl : r.user_id = userId}) :
        LET goals == [i \in 1..Len(result) |-> RecordOf(GoalCol, result[i])]
        IN /\ pgRes' = Value(SortBy(goals, TimesOrZeroOf(goals, "createdAt")))
           /\ UNCHANGED pgGoalVars

PgGetFinancialGoal(id) ==
    \E result \in Orders({r \in financial_goals_tbl : r.id = id}) :
        /\ pgRes' = (IF Len(result) > 0 THEN Value(RecordOf(GoalCol, result[1]))
                     ELSE Undefined)
        /\ UNCHANGED pgGoalVars

PgCreateFinancialGoal(insertGoal) ==
    LET values == [userId |-> insertGoal.userId, title |-> insertGoal.title,
                   targetAmount |-> insertGoal.targetAmount,
                   currentAmount |-> insertGoal.currentAmount,
                   deadline |-> insertGoal.deadline, category |-> insertGoal.category]
        row == Spread([id |-> financial_goals_id_seq, created_at |-> Date(now)],
                      ColumnsOf(GoalCol, values))
    IN /\ financial_goals_id_seq' = financial_goals_id_seq + 1
       /\ IF ReferencesUser(row)
          THEN /\ financial_goals_tbl' = financial_goals_tbl \cup {row}
               /\ pgRes' = Value(RecordOf(GoalCol, row))
          ELSE /\ financial_goals_tbl' = financial_goals_tbl
               /\ pgRes' = Throw("foreign_key_violation")

\* updateFinancialGoal without the WHERE of its UPDATE
PgUpdateFinancialGoal_NoWhere(id, updateData) ==
    LET hit == financial_goals_tbl
        updated == {Spread(r, ColumnsOf(GoalCol, updateData)) : r \in hit}
    IN /\ financial_goals_tbl' = (financial_goals_tbl \ hit) \cup updated
       /\ \E result \in Orders(updated) :
              pgRes' = (IF Len(result) > 0 THEN Value(RecordOf(GoalCol, result[1]))
                        ELSE Undefined)
       /\ UNCHANGED financial_goals_id_seq

\* UPDATE financial_goals SET ... WHERE id = id RETURNING *
PgUpdateFinancialGoal(id, updateData) ==
    LET hit == {r \in financial_goals_tbl : r.id = id}
        updated == {Spread(r, ColumnsOf(GoalCol, updateData)) : r \in hit}
    IN /\ financial_goals_tbl' = (financial_goals_tbl \ hit) \cup updated
       /\ \E result \in Orders(updated) :
              pgRes' = (IF Len(result) > 0 THEN Value(RecordOf(GoalCol, result[1]))
                        ELSE Undefined)
       /\ UNCHANGED financial_goals_id_seq

\* DELETE FROM financial_goals WHERE id = id RETURNING id
PgDeleteFinancialGoal(id) ==
    LET result == {r \in financial_goals_tbl : r.id = id}
    IN /\ financial_goals_tbl' = financial_goals_tbl \ result
       /\ pgRes' = Value(Cardinality(result) > 0)
       /\ UNCHANGED financial_goals_id_seq

\* ---- a database call that fails
\* the errors with which an awaited query rejects for a reason outside the
\* statement (connection, transport, server)
DbErrors == {"connection_error"}

\* the catch block swallowing the error and answering not-found
PgCatch_Swallows(error) == Undefined

\* the catch block every operation has: console.error(..., error); throw error
PgCatch(error) == Throw(error)

\* an operation whose awaited query rejects with error: the statement is not
\* carried out and the catch block takes over
PgRejected(error) ==
    /\ pgRes' = PgCatch(error)
    /\ UNCHANGED <<pgUserVars, pgProfileVars, pgMessageVars, pgGoalVars>>

\* updateFinancialProfile with a query that rejects: the select of its
\* getFinancialProfile, or its UPDATE after the select has found a profile
PgUpdateFinancialProfileRejected(userId, updateData, error) ==
    \/ PgRejected(error)
    \/ \E profile \in PgFoundProfiles(userId) :
           profile # Null /\ PgRejected(error)

\* ========================================================= the callers
Callers == 1..MaxCallers
Idle == [op |-> "idle"]
NoRace == [op |-> "none"]

\* ---- the storage handle
\* a value of process.env.USE_MEMORY_STORAGE: Null when the variable is not set
Env(value) == [value |-> value]
Flags == {Null, Env("true"), Env("false"), Env("TRUE"), Env("1"), Env("")}

NewStorage_Truthy(flag) ==
    IF flag # Null /\ flag # Env("") THEN "MemStorage" ELSE "PostgresStorage"

\* process.env.USE_MEMORY_STORAGE === 'true' ? new MemStorage() : new PostgresStorage()
NewStorage(flag) ==
    IF flag = Env("true") THEN "MemStorage" ELSE "PostgresStorage"

\* storage.ts has been loaded: the handle is bound, once, to the backend the
\* flag selects
Loaded(flag) ==
    /\ USE_MEMORY_STORAGE = flag
    /\ storage = NewStorage(USE_MEMORY_STORAGE)

\* a value of an API key variable
Keys == {Null, Env(""), Env("sk-1")}

\* the variables as the process has them when the modules have been loaded
Environment(openaiKey, deepseekKey) ==
    /\ OPENAI_API_KEY = openaiKey
    /\ DEEPSEEK_API_KEY = deepseekKey

\* what dotenv.config() makes of a variable: one the process has is kept, one
\* it does not have is set if the .env file holds it
Configured(variable, Values) ==
    IF variable = Null THEN Values ELSE {variable}

\* dotenv.config() once more after startup, the .env file holding something
\* the process does not have yet
DotenvConfig ==
    /\ USE_MEMORY_STORAGE' \in Configured(USE_MEMORY_STORAGE, Flags)
    /\ OPENAI_API_KEY' \in Configured(OPENAI_API_KEY, Keys)
    /\ DEEPSEEK_API_KEY' \in Configured(DEEPSEEK_API_KEY, Keys)
    /\ <<USE_MEMORY_STORAGE, keyVars>>' # <<USE_MEMORY_STORAGE, keyVars>>
    /\ memRace' = NoRace /\ pgRace' = NoRace
    /\ UNCHANGED <<storage, aiVars, now, userVars, profileVars, messageVars,
                   goalVars, resVars, pendingVars, histVars>>

\* ---- aiService.ts
\* String.prototype.includes
Includes(s, t) ==
    \E i \in 1..(Len(s) - Len(t) + 1) : SubSeq(s, i, i + Len(t) - 1) = t

\* `!process.env.X`: the variable is not set or is the empty string
Missing(variable) == variable = Null \/ variable = Env("")

SYSTEM_PROMPT == "You are FinanceGuru, a knowledgeable financial advisor"
DefaultResponse ==
    "I'm having trouble connecting to my knowledge base right now. Please try again in a moment."

\* the messages of the request: the system prompt, the history taken as
\* alternating user and assistant turns, the current message
Messages(userMessage, chatHistory) ==
    <<[role |-> "system", content |-> SYSTEM_PROMPT]>>
    \o [i \in 1..Len(chatHistory) |->
           [role |-> IF i % 2 = 1 THEN "user" ELSE "assistant",
            content |-> chatHistory[i]]]
    \o <<[role |-> "user", content |-> userMessage]>>

\* JSON.stringify of the body of an error response
JSONStringify(data) == "{\"message\":\"" \o data.message \o "\"}"

\* new Error(message)
NewError(message) == [instanceofError |-> TRUE, message |-> message]

\* How an awaited request settles: fulfilled with a value or rejected with
\* what was thrown. The first choice of a reply may lack its message; a
\* thrown value need not be an Error.
Fulfilled(val) == [kind |-> "fulfilled", val |-> val]
Rejected(error) == [kind |-> "rejected", error |-> error]
Choices ==
    { <<>>,
      <<[message |-> [content |-> "Pay the card with the highest rate first."]]>>,
      <<[message |-> [content |-> ""]]>>,
      <<[finish_reason |-> "length"]>> }
NotAnError == [instanceofError |-> FALSE, thrown |-> "aborted"]
\* openai.chat.completions.create
OpenAIOutcomes ==
    {Fulfilled([choices |-> c]) : c \in Choices}
    \cup {Rejected(e) : e \in
            { NewError("Connection error."),
              Spread(NewError("401 Incorrect API key provided: sk-1."), [status |-> 401]),
              Spread(NewError("500 The server had an error"), [status |-> 500]),
              NotAnError }}
\* axios.post
ErrorBodies == {[message |-> "Invalid API key"], [message |-> "overloaded"]}
AxiosError(message) == Spread(NewError(message), [isAxiosError |-> TRUE])
DeepseekOutcomes ==
    {Fulfilled([data |-> [choices |-> c]]) : c \in Choices}
    \cup {Fulfilled([data |-> [id |-> "r1"]])}
    \cup {Rejected(Spread(AxiosError("Request failed with status code " \o ToString(st)),
                          [response |-> [status |-> st, data |-> d]])) :
              st \in {401, 500}, d \in ErrorBodies}
    \cup {Rejected(e) : e \in
            {AxiosError("Network Error"), AxiosError("timeout of 0ms exceeded"),
             NewError("Invalid URL"), NotAnError}}

\* `choices[0].message.content || response`, reading a property of an
\* undefined message being a TypeError
ContentOr(choice, response) ==
    IF "message" \notin DOMAIN choice
    THEN Throw(NewError("Cannot read properties of undefined (reading 'content')"))
    ELSE IF choice.message.content = "" THEN Value(response)
    ELSE Value(choice.message.content)

\* generateOpenAIResponse; outcome: how the request settles, if it is made
GenerateOpenAIResponse(userMessage, chatHistory, outcome) ==
    IF Missing(OPENAI_API_KEY)
    THEN Value("API key not configured. Please set the OPENAI_API_KEY environment variable.")
    ELSE IF outcome.kind = "rejected" THEN Throw(outcome.error)
    ELSE IF Len(outcome.val.choices) > 0
    THEN ContentOr(outcome.val.choices[1], DefaultResponse)
    ELSE Value(DefaultResponse)

\* generateDeepseekResponse; outcome: how the request settles, if it is made
GenerateDeepseekResponse(userMessage, chatHistory, outcome) ==
    IF Missing(DEEPSEEK_API_KEY)
    THEN Value("Deepseek API key not configured. Please set the DEEPSEEK_API_KEY environment variable.")
    ELSE IF outcome.kind = "rejected"
    THEN LET error == outcome.error IN
         IF "isAxiosError" \in DOMAIN error /\ "response" \in DOMAIN error
         THEN Throw(NewError("Deepseek API error: " \o ToString(error.response.status)
                             \o " - " \o JSONStringify(error.response.data)))
         ELSE Throw(error)
    ELSE LET data == outcome.val.data IN
         IF /\ "choices" \in DOMAIN data
            /\ Len(data.choices) > 0
            /\ "message" \in DOMAIN data.choices[1]
         THEN ContentOr(data.choices[1], DefaultResponse)
         ELSE Value(DefaultResponse)

\* the catch of generateFinanceResponse
CatchAiError(error) ==
    IF error.instanceofError
    THEN IF Includes(error.message, "API key")
         THEN Value("API key error. Please check your API key configuration.")
         ELSE Value("I'm having trouble generating a response: " \o error.message)
    ELSE Value(DefaultResponse)

GenerateFinanceResponseOf_NoCatch(userMessage, chatHistory, model, outcome) ==
    IF model = "deepseek"
    THEN GenerateDeepseekResponse(userMessage, chatHistory, outcome)
    ELSE GenerateOpenAIResponse(userMessage, chatHistory, outcome)

\* generateFinanceResponse(userMessage, chatHistory, model)
GenerateFinanceResponseOf(userMessage, chatHistory, model, outcome) ==
    LET response == IF model = "deepseek"
                    THEN GenerateDeepseekResponse(userMessage, chatHistory, outcome)
                    ELSE GenerateOpenAIResponse(userMessage, chatHistory, outcome)
    IN  IF response.kind = "throw" THEN CatchAiError(response.val) ELSE response

AIModels == {"openai", "deepseek"}
ChatHistories == {<<>>, <<"How do I start?", "Track your spending.">>}

\* a call of generateFinanceResponse, awaited by its caller
GenerateFinanceResponse ==
    \E model \in AIModels, chatHistory \in ChatHistories,
       outcome \in OpenAIOutcomes \cup DeepseekOutcomes :
        /\ outcome \in (IF model = "deepseek" THEN DeepseekOutcomes ELSE OpenAIOutcomes)
        /\ LET userMessage == "Which debt first?"
               requested == ~Missing(IF model = "deepseek" THEN DEEPSEEK_API_KEY
                                     ELSE OPENAI_API_KEY)
           IN  /\ aiCall' = [op |-> "generateFinanceResponse", model |-> model,
                             messages |-> Messages(userMessage, chatHistory),
                             requested |-> requested,
                             outcome |-> IF requested THEN outcome
                                         ELSE [kind |-> "none"]]
               /\ aiRes' = GenerateFinanceResponseOf(userMessage, chatHistory,
                                                     model, outcome)
        /\ memRace' = NoRace /\ pgRace' = NoRace
        /\ UNCHANGED <<storageVars, keyVars, now, userVars, profileVars, messageVars,
                       goalVars, resVars, pendingVars, histVars>>

\* the two backends as constructed
Constructed ==
    /\ now = 1
    /\ users = <<>> /\ financialProfiles = <<>>
    /\ chatMessages = <<>> /\ financialGoals = <<>>
    /\ userIdCounter = 1 /\ profileIdCounter = 1
    /\ messageIdCounter = 1 /\ goalIdCounter = 1
    /\ users_tbl = {} /\ financial_profiles_tbl = {}
    /\ chat_messages_tbl = {} /\ financial_goals_tbl = {}
    /\ users_id_seq = 1 /\ financial_profiles_id_seq = 1
    /\ chat_messages_id_seq = 1 /\ financial_goals_id_seq = 1
    /\ call = [op |-> "none"]
    /\ memRes = NoResult /\ pgRes = NoResult
    /\ memPending = [c \in Callers |-> Idle]
    /\ pgPending = [c \in Callers |-> Idle]
    /\ memRace = NoRace /\ pgRace = NoRace
    /\ memCreated = <<>> /\ pgCreated = <<>>
    /\ memIssued = [user |-> <<>>, profile |-> <<>>, message |-> <<>>, goal |-> <<>>]
    /\ pgIssued = [user |-> <<>>, profile |-> <<>>, message |-> <<>>, goal |-> <<>>]
    /\ memDeleted = {} /\ pgDeleted = {}
    /\ memRedeleted = {} /\ pgRedeleted = {}
    /\ aiCall = [op |-> "none"]
    /\ aiRes = NoResult

\* a process started with the flag and the API keys unset
Init == Loaded(Null) /\ Environment(Null, Null) /\ Constructed

\* a process started with any value of the flag
InitStorage ==
    (\E flag \in Flags : Loaded(flag)) /\ Environment(Null, Null) /\ Constructed

\* a process started with any values of the API keys
InitAi ==
    /\ Loaded(Null)
    /\ \E openaiKey \in Keys, deepseekKey \in Keys : Environment(openaiKey, deepseekKey)
    /\ Constructed

\* history: no suspended update went on in this step
NoRaceNow == memRace' = NoRace /\ pgRace' = NoRace

\* time passes between two steps
Tick ==
    /\ now < MaxTime
    /\ now' = now + 1
    /\ NoRaceNow
    /\ UNCHANGED <<processVars, userVars, profileVars, messageVars, goalVars,
                   resVars, pendingVars, histVars>>

\* history: the input of a create that returned a record
Remember(hist, res, data) ==
    IF res.kind = "value" THEN Append(hist, [id |-> res.val.id, data |-> data]) ELSE hist

\* history: the id a create returned
Issue(hist, type, res) ==
    IF res.kind = "value" THEN [hist EXCEPT ![type] = Append(@, res.val.id)] ELSE hist

\* ---- users
GetUser ==
    \E id \in UserIds :
        /\ call' = [op |-> "getUser", id |-> id]
        /\ MemGetUser(id)
        /\ PgGetUser(id)
        /\ NoRaceNow
        /\ UNCHANGED <<processVars, now, profileVars, messageVars, goalVars, pendingVars, histVars>>

GetUserByUsername ==
    \E username \in Usernames \cup {NeverUsername} :
        /\ call' = [op |-> "getUserByUsername", username |-> username]
        /\ MemGetUserByUsername(username)
        /\ PgGetUserByUsername(username)
        /\ NoRaceNow
        /\ UNCHANGED <<processVars, now, profileVars, messageVars, goalVars, pendingVars, histVars>>

GetUserByEmail ==
    \E email \in Emails \cup {NeverEmail} :
        /\ call' = [op |-> "getUserByEmail", email |-> email]
        /\ MemGetUserByEmail(email)
        /\ PgGetUserByEmail(email)
        /\ NoRaceNow
        /\ UNCHANGED <<processVars, now, profileVars, messageVars, goalVars, pendingVars, histVars>>

\* createUser with an input of the set S
CreateUserOf(S) ==
    \E insertUser \in S :
        /\ userIdCounter <= MaxUsers
        /\ call' = [op |-> "createUser", data |-> insertUser]
        /\ MemCreateUser(insertUser)
        /\ PgCreateUser(insertUser)
        /\ memCreated' = Remember(memCreated, memRes', insertUser)
        /\ pgCreated' = Remember(pgCreated, pgRes', insertUser)
        /\ memIssued' = Issue(memIssued, "user", memRes')
        /\ pgIssued' = Issue(pgIssued, "user", pgRes')
        /\ NoRaceNow
        /\ UNCHANGED <<processVars, now, profileVars, messageVars, goalVars, pendingVars, deletedVars>>

CreateUser == CreateUserOf(InsertUsers)

\* the registration of one of the two owner accounts
RegisterOwner == CreateUserOf(OwnerInputs)

\* ---- financial profiles
GetFinancialProfile ==
    \E userId \in UserIds :
        /\ call' = [op |-> "getFinancialProfile", userId |-> userId]
        /\ MemGetFinancialProfile(userId)
        /\ PgGetFinancialProfile(userId)
        /\ NoRaceNow
        /\ UNCHANGED <<processVars, now, userVars, messageVars, goalVars, pendingVars, histVars>>

\* createFinancialProfile with an input of the set S
CreateFinancialProfileOf(S) ==
    \E insertProfile \in S :
        /\ profileIdCounter <= MaxProfiles
        /\ call' = [op |-> "createFinancialProfile", data |-> insertProfile]
        /\ MemCreateFinancialProfile(insertProfile)
        /\ PgCreateFinancialProfile(insertProfile)
        /\ memIssued' = Issue(memIssued, "profile", memRes')
        /\ pgIssued' = Issue(pgIssued, "profile", pgRes')
        /\ NoRaceNow
        /\ UNCHANGED <<processVars, now, userVars, messageVars, goalVars, pendingVars,
                       createdVars, deletedVars>>

CreateFinancialProfile == CreateFinancialProfileOf(InsertProfiles)

\* updateFinancialProfile awaited before anything else is called
UpdateFinancialProfile ==
    \E userId \in UserIds, updateData \in ProfilePatches :
        /\ call' = [op |-> "updateFinancialProfile", userId |-> userId,
                    data |-> updateData]
        /\ MemUpdateFinancialProfile(userId, updateData)
        /\ PgUpdateFinancialProfile(userId, updateData)
        /\ NoRaceNow
        /\ UNCHANGED <<processVars, now, userVars, messageVars, goalVars, pendingVars, histVars>>

\* ---- chat messages
GetChatMessages ==
    \E userId \in UserIds, limit \in Limits :
        /\ call' = [op |-> "getChatMessages", userId |-> userId, limit |-> limit]
        /\ MemGetChatMessages(userId, limit)
        /\ PgGetChatMessages(userId, limit)
        /\ NoRaceNow
        /\ UNCHANGED <<processVars, now, userVars, profileVars, goalVars, pendingVars, histVars>>

\* createChatMessage with an input of the set S
CreateChatMessageOf(S) ==
    \E insertMessage \in S :
        /\ messageIdCounter <= MaxMessages
        /\ call' = [op |-> "createChatMessage", data |-> insertMessage]
        /\ MemCreateChatMessage(insertMessage)
        /\ PgCreateChatMessage(insertMessage)
        /\ memIssued' = Issue(memIssued, "message", memRes')
        /\ pgIssued' = Issue(pgIssued, "message", pgRes')
        /\ NoRaceNow
        /\ UNCHANGED <<processVars, now, userVars, profileVars, goalVars, pendingVars,
                       createdVars, deletedVars>>

CreateChatMessage == CreateChatMessageOf(InsertMessages)

\* ---- financial goals
GoalIds == 1..(MaxGoals + 1)

GetFinancialGoals ==
    \E userId \in UserIds :
        /\ call' = [op |-> "getFinancialGoals", userId |-> userId]
        /\ MemGetFinancialGoals(userId)
        /\ PgGetFinancialGoals(userId)
        /\ NoRaceNow
        /\ UNCHANGED <<processVars, now, userVars, profileVars, messageVars, pendingVars, histVars>>

GetFinancialGoal ==
    \E id \in GoalIds :
        /\ call' = [op |-> "getFinancialGoal", id |-> id]
        /\ MemGetFinancialGoal(id)
        /\ PgGetFinancialGoal(id)
        /\ NoRaceNow
        /\ UNCHANGED <<processVars, now, userVars, profileVars, messageVars, pendingVars, histVars>>

\* createFinancialGoal with an input of the set S
CreateFinancialGoalOf(S) ==
    \E insertGoal \in S :
        /\ goalIdCounter <= MaxGoals
        /\ call' = [op |-> "createFinancialGoal", data |-> insertGoal]
        /\ MemCreateFinancialGoal(insertGoal)
        /\ PgCreateFinancialGoal(insertGoal)
        /\ memIssued' = Issue(memIssued, "goal", memRes')
        /\ pgIssued' = Issue(pgIssued, "goal", pgRes')
        /\ NoRaceNow
        /\ UNCHANGED <<processVars, now, userVars, profileVars, messageVars, pendingVars,
                       createdVars, deletedVars>>

CreateFinancialGoal == CreateFinancialGoalOf(InsertGoals)

\* updateFinancialGoal with update data of the set S, awaited before anything
\* else is called
UpdateFinancialGoalOf(S) ==
    \E id \in GoalIds, updateData \in S :
        /\ call' = [op |-> "updateFinancialGoal", id |-> id, data |-> updateData]
        /\ MemUpdateFinancialGoal(id, updateData)
        /\ PgUpdateFinancialGoal(id, updateData)
        /\ NoRaceNow
        /\ UNCHANGED <<processVars, now, userVars, profileVars, messageVars, pendingVars, histVars>>

UpdateFinancialGoal == UpdateFinancialGoalOf(GoalPatches)

\* ---- calls that overlap
\* Every operation is an async function: it runs without interruption up to its
\* first await that has to wait and between two such awaits. MemStorage's two
\* updates await the promise of their lookup (storage.ts:100, 157), so whatever
\* else was called before their continuation is scheduled runs between the
\* lookup and the Map write; its other operations hold no await. In
\* PostgresStorage every statement is awaited; only updateFinancialProfile issues
\* two (storage.ts:269, 275).

\* no field written meanwhile
NoFields == [f \in {} |-> Null]

\* a suspended update: what it was called with, what its lookup returned, and
\* (history) the fields written to the same record since, and its deletion
Suspended(op, key, updateData, existing) ==
    [op |-> op, key |-> key, data |-> updateData, existing |-> existing,
     meanwhile |-> NoFields, deleted |-> FALSE]

\* history: the fields of `written` noted in every other suspended update of
\* the record
Meanwhile(pending, caller, op, key, written) ==
    [c \in Callers |->
        IF c # caller /\ pending[c] # Idle /\ pending[c].op = op /\ pending[c].key = key
        THEN [pending[c] EXCEPT !.meanwhile = Spread(@, written)]
        ELSE pending[c]]

\* history: a deletion noted in every suspended update of the goal
DeletedMeanwhile(pending, id) ==
    [c \in Callers |->
        IF pending[c] # Idle /\ pending[c].op = "updateFinancialGoal"
           /\ pending[c].key = id
        THEN [pending[c] EXCEPT !.deleted = TRUE]
        ELSE pending[c]]

\* updateFinancialProfile(userId, updateData), userId in ids and updateData in S,
\* called by an idle caller: MemStorage runs its lookup, PostgresStorage its
\* SELECT, and both wait
BeginUpdateFinancialProfileOf(ids, S) ==
    \E c \in Callers, userId \in ids, updateData \in S :
        /\ memPending[c] = Idle /\ pgPending[c] = Idle
        /\ call' = [op |-> "updateFinancialProfile", userId |-> userId,
                    data |-> updateData]
        /\ memRes' = NoResult /\ pgRes' = NoResult
        /\ memPending' = [memPending EXCEPT ![c] =
               Suspended("updateFinancialProfile",
                         IF MemFindProfile(userId) = Null THEN 0
                         ELSE MemFindProfile(userId).id,
                         updateData, MemFindProfile(userId))]
        /\ \E profile \in PgFoundProfiles(userId) :
               pgPending' = [pgPending EXCEPT ![c] =
                   Suspended("updateFinancialProfile", userId, updateData, profile)]
        /\ NoRaceNow
        /\ UNCHANGED <<processVars, now, userVars, profileVars, messageVars, goalVars, histVars>>

\* a suspended updateFinancialProfile goes on: the continuation of MemStorage's
\* and the second statement of PostgresStorage's (the two backends share
\* nothing, so the callers are scheduled alike on both)
ResumeUpdateFinancialProfile ==
    \E c \in Callers :
        /\ memPending[c] # Idle /\ memPending[c].op = "updateFinancialProfile"
        /\ pgPending[c] # Idle /\ pgPending[c].op = "updateFinancialProfile"
        /\ MemUpdateFinancialProfileResume(memPending[c].existing, memPending[c].data)
        /\ PgUpdateFinancialProfileResume(pgPending[c].existing, pgPending[c].key,
                                          pgPending[c].data)
        /\ memRace' = memPending[c]
        /\ pgRace' = pgPending[c]
        /\ memPending' =
               [Meanwhile(memPending, c, "updateFinancialProfile", memPending[c].key,
                          IF memPending[c].existing = Null THEN NoFields
                          ELSE memPending[c].data)
                EXCEPT ![c] = Idle]
        /\ pgPending' =
               [Meanwhile(pgPending, c, "updateFinancialProfile", pgPending[c].key,
                          IF pgPending[c].existing = Null THEN NoFields
                          ELSE pgPending[c].data)
                EXCEPT ![c] = Idle]
        /\ UNCHANGED <<processVars, now, userVars, messageVars, goalVars, call, histVars>>

\* updateFinancialGoal(id, updateData), id in ids and updateData in S, called by
\* an idle caller: MemStorage runs its lookup and waits, PostgresStorage runs
\* its one UPDATE
BeginUpdateFinancialGoalOf(ids, S) ==
    \E c \in Callers, id \in ids, updateData \in S :
        /\ memPending[c] = Idle /\ pgPending[c] = Idle
        /\ call' = [op |-> "updateFinancialGoal", id |-> id, data |-> updateData]
        /\ memRes' = NoResult
        /\ memPending' = [memPending EXCEPT ![c] =
               Suspended("updateFinancialGoal", id, updateData,
                         MapGet(financialGoals, id))]
        /\ PgUpdateFinancialGoal(id, updateData)
        /\ NoRaceNow
        /\ UNCHANGED <<processVars, now, userVars, profileVars, messageVars, memGoalVars,
                       pgPending, histVars>>

\* the continuation of MemStorage.updateFinancialGoal
ResumeUpdateFinancialGoal ==
    \E c \in Callers :
        /\ memPending[c] # Idle /\ memPending[c].op = "updateFinancialGoal"
        /\ MemUpdateFinancialGoalResume(memPending[c].key, memPending[c].existing,
                                        memPending[c].data)
        /\ memRace' = memPending[c]
        /\ memPending' =
               [Meanwhile(memPending, c, "updateFinancialGoal", memPending[c].key,
                          IF memPending[c].existing = Null THEN NoFields
                          ELSE memPending[c].data)
                EXCEPT ![c] = Idle]
        /\ pgRace' = NoRace
        /\ UNCHANGED <<processVars, now, userVars, profileVars, messageVars, pgGoalVars, call,
                       pgRes, pgPending, histVars>>

DeleteFinancialGoal ==
    \E id \in GoalIds :
        /\ call' = [op |-> "deleteFinancialGoal", id |-> id]
        /\ MemDeleteFinancialGoal(id)
        /\ PgDeleteFinancialGoal(id)
        /\ memDeleted' = (IF memRes'.val THEN memDeleted \cup {id} ELSE memDeleted)
        /\ pgDeleted' = (IF pgRes'.val THEN pgDeleted \cup {id} ELSE pgDeleted)
        /\ memRedeleted' = (IF memRes'.val /\ id \in memDeleted
                            THEN memRedeleted \cup {id} ELSE memRedeleted)
        /\ pgRedeleted' = (IF pgRes'.val /\ id \in pgDeleted
                           THEN pgRedeleted \cup {id} ELSE pgRedeleted)
        /\ memPending' = DeletedMeanwhile(memPending, id)
        /\ NoRaceNow
        /\ UNCHANGED <<processVars, now, userVars, profileVars, messageVars, pgPending,
                       createdVars, issuedVars>>

\* ---- calls on PostgresStorage while the database fails
\* one call of every operation
FailingCalls ==
    { [op |-> "getUser", id |-> 1],
      [op |-> "getUserByUsername", username |-> "alice"],
      [op |-> "getUserByEmail", email |-> "a@x.com"],
      [op |-> "getFinancialProfile", userId |-> 1],
      [op |-> "updateFinancialProfile", userId |-> 1, data |-> [riskTolerance |-> "high"]],
      [op |-> "getChatMessages", userId |-> 1, limit |-> NoLimit],
      [op |-> "getFinancialGoals", userId |-> 1],
      [op |-> "getFinancialGoal", id |-> 1],
      [op |-> "updateFinancialGoal", id |-> 1, data |-> [title |-> "Car"]],
      [op |-> "deleteFinancialGoal", id |-> 1] }
    \cup {[op |-> "createUser", data |-> u] : u \in {v \in OwnerInputs : v.username = "alice"}}
    \cup {[op |-> "createFinancialProfile", data |-> p] : p \in {q \in InsertProfiles : q.userId = 1}}
    \cup {[op |-> "createChatMessage", data |-> m] : m \in {q \in InsertMessages : q.userId = 1}}
    \cup {[op |-> "createFinancialGoal", data |-> g] : g \in {q \in InsertGoals : q.userId = 1}}

\* a call on PostgresStorage whose database query rejects (the call is noted
\* with the error the driver raised; MemStorage, which has no database, is not
\* called)
DatabaseCallFails ==
    \E c \in FailingCalls, error \in DbErrors :
        /\ call' = Spread(c, [dbError |-> error])
        /\ IF c.op = "updateFinancialProfile"
           THEN PgUpdateFinancialProfileRejected(c.userId, c.data, error)
           ELSE PgRejected(error)
        /\ memRes' = NoResult
        /\ NoRaceNow
        /\ UNCHANGED <<processVars, now, memUserVars, memProfileVars, memMessageVars, memGoalVars,
                       pendingVars, histVars>>

\* ------------------------------------------------- the specifications
\* the user operations, one call at a time
NextUsers ==
    \/ Tick
    \/ GetUser
    \/ GetUserByUsername
    \/ GetUserByEmail
    \/ CreateUser

SpecUsers == Init /\ [][NextUsers]_vars

\* the chat message operations, one call at a time
NextMessages ==
    \/ Tick
    \/ RegisterOwner
    \/ GetChatMessages
    \/ CreateChatMessage

SpecMessages == Init /\ [][NextMessages]_vars

\* the financial goal operations, one call at a time
NextGoals ==
    \/ Tick
    \/ RegisterOwner
    \/ GetFinancialGoals
    \/ GetFinancialGoal
    \/ CreateFinancialGoal
    \/ UpdateFinancialGoal
    \/ DeleteFinancialGoal

SpecGoals == Init /\ [][NextGoals]_vars

\* the financial profile operations, one call at a time
NextProfiles ==
    \/ Tick
    \/ RegisterOwner
    \/ GetFinancialProfile
    \/ CreateFinancialProfile
    \/ UpdateFinancialProfile

SpecProfiles == Init /\ [][NextProfiles]_vars

\* the four id counters: creates of every entity type, goal updates and deletes
NextIds ==
    \/ CreateUserOf({u \in OwnerInputs : u.username = "alice"})
    \/ CreateFinancialProfileOf({p \in InsertProfiles : p.userId = 1})
    \/ CreateChatMessageOf({m \in InsertMessages : m.userId = 1})
    \/ CreateFinancialGoalOf({g \in InsertGoals : g.userId = 1})
    \/ UpdateFinancialGoalOf({[currentAmount |-> "500.00"]})
    \/ DeleteFinancialGoal

SpecIds == Init /\ [][NextIds]_vars

\* the callers of the overlap runs register one account with one profile and
\* one goal, and update them with one field each
OneUser == CreateUserOf({u \in OwnerInputs : u.username = "alice" /\ users = <<>>})
OneProfile ==
    CreateFinancialProfileOf({p \in InsertProfiles :
                                 p.userId = 1 /\ financialProfiles = <<>>})
OneGoal == CreateFinancialGoalOf({g \in InsertGoals : g.userId = 1 /\ goalIdCounter = 1})
BeginUpdateOfProfile ==
    BeginUpdateFinancialProfileOf({1}, {[monthlyIncome |-> "2000.00"],
                                        [riskTolerance |-> "high"]})
BeginUpdateOfGoal ==
    BeginUpdateFinancialGoalOf({1}, {[title |-> "Car"], [currentAmount |-> "500.00"]})

\* updateFinancialProfile calls that overlap
NextProfileRace ==
    \/ OneUser
    \/ OneProfile
    \/ BeginUpdateOfProfile
    \/ ResumeUpdateFinancialProfile

SpecProfileRace == Init /\ [][NextProfileRace]_vars

\* updateFinancialProfile and updateFinancialGoal calls that overlap
NextUpdateRace ==
    \/ OneUser
    \/ OneProfile
    \/ OneGoal
    \/ BeginUpdateOfProfile
    \/ ResumeUpdateFinancialProfile
    \/ BeginUpdateOfGoal
    \/ ResumeUpdateFinancialGoal

SpecUpdateRace == Init /\ [][NextUpdateRace]_vars

\* updateFinancialGoal calls that overlap each other, a delete and a read
NextGoalRace ==
    \/ OneUser
    \/ OneGoal
    \/ BeginUpdateOfGoal
    \/ ResumeUpdateFinancialGoal
    \/ GetFinancialGoal
    \/ DeleteFinancialGoal

SpecGoalRace == Init /\ [][NextGoalRace]_vars

\* creates the database accepts and refuses, deletes, and calls during which
\* the database fails
NextDbErrors ==
    \/ CreateUserOf({u \in OwnerInputs : u.username = "alice"})
    \/ CreateFinancialProfile
    \/ CreateFinancialGoal
    \/ DeleteFinancialGoal
    \/ DatabaseCallFails

SpecDbErrors == Init /\ [][NextDbErrors]_vars

\* the seven read operations, over stores that creates and deletes fill
NextReads ==
    \/ Tick
    \/ OneUser
    \/ OneProfile
    \/ CreateChatMessageOf({m \in InsertMessages : m.userId = 1 /\ messageIdCounter = 1})
    \/ CreateFinancialGoalOf({g \in InsertGoals : g.userId = 1})
    \/ DeleteFinancialGoal
    \/ GetUser
    \/ GetUserByUsername
    \/ GetUserByEmail
    \/ GetFinancialProfile
    \/ GetChatMessages
    \/ GetFinancialGoals
    \/ GetFinancialGoal

SpecReads == Init /\ [][NextReads]_vars

\* A database that is already in use when the server starts: the account of
\* alice (known to both backends) and, in table financial_goals, possibly a goal
\* of hers written before, whose created_at, a column without NOT NULL, may be
\* missing.
LegacyOwner == [username |-> "alice", email |-> "a@x.com", password |-> "h1"]
LegacyGoal(created_at) ==
    [id |-> 1, user_id |-> 1, title |-> "House", target_amount |-> "9000.00",
     current_amount |-> "0.00", deadline |-> "none", category |-> "savings",
     created_at |-> created_at]

\* a chat message of hers written before; timestamp has no NOT NULL either
LegacyMessage(id, timestamp) ==
    [id |-> id, user_id |-> 1, message |-> "hi", is_user_message |-> 1,
     timestamp |-> timestamp]

\* the process started over a database holding the account of alice, the rows
\* `messages` and `goals`, written before with ids up to `rows`
LegacyDatabase(messages, goals, rows) ==
    /\ Loaded(Null)
    /\ Environment(Null, Null)
    /\ aiCall = [op |-> "none"]
    /\ aiRes = NoResult
    /\ now = 1
    /\ users = <<Spread(LegacyOwner, [id |-> 1, createdAt |-> Date(1)])>>
    /\ financialProfiles = <<>> /\ chatMessages = <<>> /\ financialGoals = <<>>
    /\ userIdCounter = 2 /\ profileIdCounter = 1
    /\ messageIdCounter = 1 /\ goalIdCounter = 1
    /\ users_tbl = {[id |-> 1, username |-> "alice", email |-> "a@x.com",
                     password_hash |-> "h1", created_at |-> Date(1)]}
    /\ financial_profiles_tbl = {} /\ chat_messages_tbl = messages
    /\ financial_goals_tbl = goals
    /\ users_id_seq = 2 /\ financial_profiles_id_seq = 1
    /\ chat_messages_id_seq = rows + 1 /\ financial_goals_id_seq = rows + 1
    /\ call = [op |-> "none"]
    /\ memRes = NoResult /\ pgRes = NoResult
    /\ memPending = [c \in Callers |-> Idle]
    /\ pgPending = [c \in Callers |-> Idle]
    /\ memRace = NoRace /\ pgRace = NoRace
    /\ memCreated = <<[id |-> 1, data |-> LegacyOwner]>>
    /\ pgCreated = <<[id |-> 1, data |-> LegacyOwner]>>
    /\ memIssued = [user |-> <<1>>, profile |-> <<>>, message |-> <<>>, goal |-> <<>>]
    /\ pgIssued = [user |-> <<1>>, profile |-> <<>>, message |-> <<>>, goal |-> <<>>]
    /\ memDeleted = {} /\ pgDeleted = {}
    /\ memRedeleted = {} /\ pgRedeleted = {}

\* no goal written before, or one, with or without its created_at
InitLegacy ==
    \E goals \in {{}} \cup {{LegacyGoal(c)} : c \in {Null, Date(1)}} :
        LegacyDatabase({}, goals, 1)

\* A database whose rows were written by other programs as well (imported or
\* migrated): a timestamp column may be missing or hold any instant, one
\* before the Unix epoch included.
LegacyTimes == {Null, Date(-1), Date(1)}
InitLegacyTimes ==
    \E t1 \in LegacyTimes, t2 \in LegacyTimes :
        LegacyDatabase({LegacyMessage(1, t1), LegacyMessage(2, t2)},
                       {LegacyGoal(t1), Spread(LegacyGoal(t2), [id |-> 2])}, 2)

\* the two listings over such a database, which keeps growing
NextLegacyTimes ==
    \/ Tick
    \/ CreateChatMessageOf({m \in InsertMessages : m.userId = 1 /\ messageIdCounter = 1})
    \/ OneGoal
    \/ GetChatMessages
    \/ GetFinancialGoals

SpecLegacyTimes == InitLegacyTimes /\ [][NextLegacyTimes]_vars

\* the goal operations that list, add and remove goals, over such a database
NextLegacyGoals ==
    \/ Tick
    \/ CreateFinancialGoalOf({g \in InsertGoals : g.userId = 1})
    \/ DeleteFinancialGoal
    \/ GetFinancialGoals

SpecLegacyGoals == InitLegacy /\ [][NextLegacyGoals]_vars

\* the seven operations that write, on the records of one owner
NextLifecycle ==
    \/ CreateUserOf({u \in OwnerInputs : u.username = "alice"})
    \/ OneProfile
    \/ UpdateFinancialProfile
    \/ CreateChatMessageOf({m \in InsertMessages : m.userId = 1 /\ messageIdCounter <= 2})
    \/ CreateFinancialGoalOf({g \in InsertGoals : g.userId = 1})
    \/ UpdateFinancialGoalOf({[title |-> "Car"]})
    \/ DeleteFinancialGoal

SpecLifecycle == Init /\ [][NextLifecycle]_vars

\* calls through the handle, and the environment re-read
NextStorage ==
    \/ OneUser
    \/ GetUser
    \/ OneGoal
    \/ GetFinancialGoal
    \/ DeleteFinancialGoal
    \/ DotenvConfig

SpecStorage == InitStorage /\ [][NextStorage]_vars

\* calls of generateFinanceResponse, and the environment re-read
NextAi ==
    \/ GenerateFinanceResponse
    \/ DotenvConfig

SpecAi == InitAi /\ [][NextAi]_vars

\* every operation, one call at a time
Next ==
    \/ Tick
    \/ GetUser \/ GetUserByUsername \/ GetUserByEmail \/ CreateUser
    \/ GetFinancialProfile \/ CreateFinancialProfile \/ UpdateFinancialProfile
    \/ GetChatMessages \/ CreateChatMessage
    \/ GetFinancialGoals \/ GetFinancialGoal \/ CreateFinancialGoal
    \/ UpdateFinancialGoal \/ DeleteFinancialGoal

Spec == Init /\ [][Next]_vars

\* ================================================================ claims
\* a record without its timestamps
NoTime(rec) ==
    [f \in DOMAIN rec \ {"createdAt", "updatedAt", "timestamp"} |-> rec[f]]

ListOps == {"getChatMessages", "getFinancialGoals"}

\* the two answers to the last call are the same up to timestamps
SameAnswer ==
    /\ memRes.kind = pgRes.kind
    /\ memRes.kind = "value" =>
          IF call.op \in ListOps
          THEN /\ Len(memRes.val) = Len(pgRes.val)
               /\ \A i \in 1..Len(memRes.val) :
                      NoTime(memRes.val[i]) = NoTime(pgRes.val[i])
          ELSE IF call.op = "deleteFinancialGoal"
          THEN memRes.val = pgRes.val
          ELSE NoTime(memRes.val) = NoTime(pgRes.val)

\* C1: after every call of a sequence issued one at a time from the empty
\* store, MemStorage and PostgresStorage have returned the same result (same
\* record up to timestamps, same not-found, same boolean, same failure).
C1_BackendsIndistinguishable == SameAnswer

\* the users a backend stores
MemUsers == {users[i] : i \in 1..Len(users)}
PgUsers == {RecordOf(UserCol, r) : r \in users_tbl}

\* the answer res to getUser(id) is the user created from data, with that id
\* and a creation timestamp
IsCreatedUser(res, id, data) ==
    /\ res.kind = "value"
    /\ res.val.id = id
    /\ res.val.username = data.username
    /\ res.val.email = data.email
    /\ res.val.password = data.password
    /\ res.val.createdAt \in {Date(t) : t \in 1..MaxTime}
    /\ DOMAIN res.val = {"id", "username", "email", "password", "createdAt"}

\* C2: on every backend, getUser(id) with an id that an earlier createUser(data)
\* returned yields username, email and password of data, that id and a creation
\* timestamp, whatever ran before the createUser.
C2_CreateThenGetUser ==
    call.op = "getUser" =>
        /\ \A i \in 1..Len(memCreated) :
               memCreated[i].id = call.id =>
                   IsCreatedUser(memRes, call.id, memCreated[i].data)
        /\ \A i \in 1..Len(pgCreated) :
               pgCreated[i].id = call.id =>
                   IsCreatedUser(pgRes, call.id, pgCreated[i].data)

\* getUser of the second user created, answered by both backends
C2_Witness ==
    /\ call.op = "getUser"
    /\ \E i \in 1..Len(memCreated) : memCreated[i].id = call.id /\ i > 1
    /\ \E i \in 1..Len(pgCreated) : pgCreated[i].id = call.id /\ i > 1
    /\ memRes.kind = "value" /\ pgRes.kind = "value"

\* a stored user other than `id` has the username or the email of data
Taken(stored, id, data) ==
    \E u \in stored :
        u.id # id /\ (u.username = data.username \/ u.email = data.email)

\* C3: createUser(data) fails with a ConflictError whenever a stored user already
\* has data.username or data.email (so a createUser that returned a user found
\* neither taken), and a failed createUser leaves the stored users as they were
\* (the stored users are those the successful calls returned).
C3_ConflictOnTakenName ==
    /\ (call.op = "createUser" /\ memRes.kind = "value") =>
           ~Taken(MemUsers, memRes.val.id, call.data)
    /\ (call.op = "createUser" /\ pgRes.kind = "value") =>
           ~Taken(PgUsers, pgRes.val.id, call.data)
    /\ {u.id : u \in MemUsers} = {memCreated[i].id : i \in 1..Len(memCreated)}
    /\ {u.id : u \in PgUsers} = {pgCreated[i].id : i \in 1..Len(pgCreated)}

\* C4: no two distinct stored users have the same username, and no two the same
\* email, in either backend.
C4_UniqueUsernameAndEmail ==
    /\ \A i, j \in 1..Len(users) :
           i # j => /\ users[i].username # users[j].username
                    /\ users[i].email # users[j].email
    /\ \A r, q \in users_tbl :
           r # q => r.username # q.username /\ r.email # q.email

EntityTypes == {"user", "profile", "message", "goal"}

\* C5: per entity type the ids assigned by successive creates are 1, 2, 3, ...
\* in MemStorage and strictly increasing in PostgresStorage, so no id is
\* assigned twice, also not after the goal that held it was deleted.
C5_IdsNeverReused ==
    /\ \A type \in EntityTypes :
           \A i \in 1..Len(memIssued[type]) : memIssued[type][i] = i
    /\ \A type \in EntityTypes :
           \A i, j \in 1..Len(pgIssued[type]) :
               i < j => pgIssued[type][i] < pgIssued[type][j]
    /\ \A id \in memDeleted :
           Cardinality({i \in 1..Len(memIssued.goal) : memIssued.goal[i] = id}) = 1
    /\ \A id \in pgDeleted :
           Cardinality({i \in 1..Len(pgIssued.goal) : pgIssued.goal[i] = id}) = 1

\* a goal was created after the delete of an earlier one, and every entity type
\* has assigned ids
C5_Witness ==
    /\ call.op = "createFinancialGoal"
    /\ memDeleted # {} /\ pgDeleted # {}
    /\ memRes.kind = "value" /\ pgRes.kind = "value"
    /\ \A type \in EntityTypes : Len(memIssued[type]) >= 1 /\ Len(pgIssued[type]) >= 1
    /\ Len(memIssued.goal) >= 2

PgHasGoal(id) == \E r \in financial_goals_tbl : r.id = id

\* C6: deleteFinancialGoal(id) of an existing goal returns true and removes it;
\* afterwards the goal stays absent, deleteFinancialGoal(id) never returns true
\* again and getFinancialGoal(id) returns not-found, whatever calls come between.
C6_DeletionLaw ==
    /\ memRedeleted = {} /\ pgRedeleted = {}
    /\ \A id \in memDeleted : ~MapHas(financialGoals, id)
    /\ \A id \in pgDeleted : ~PgHasGoal(id)
    /\ call.op = "deleteFinancialGoal" =>
           /\ (\E i \in 1..Len(memIssued.goal) : memIssued.goal[i] = call.id)
                  => call.id \in memDeleted
           /\ (\E i \in 1..Len(pgIssued.goal) : pgIssued.goal[i] = call.id)
                  => call.id \in pgDeleted
           /\ memRes.val => call.id \in memDeleted
           /\ pgRes.val => call.id \in pgDeleted
           /\ ~MapHas(financialGoals, call.id) /\ ~PgHasGoal(call.id)
    /\ (call.op = "getFinancialGoal" /\ call.id \in memDeleted) =>
           memRes.kind = "undefined"
    /\ (call.op = "getFinancialGoal" /\ call.id \in pgDeleted) =>
           pgRes.kind = "undefined"

\* a second deleteFinancialGoal of a deleted goal answered false on both
\* backends, with another goal created in between
C6_Witness ==
    /\ call.op = "deleteFinancialGoal"
    /\ call.id \in memDeleted /\ call.id \in pgDeleted
    /\ memRes.val = FALSE /\ pgRes.val = FALSE
    /\ Len(memIssued.goal) >= 2

\* the messages of a user a backend stores
MemMessagesOf(userId) ==
    {chatMessages[i] : i \in {j \in 1..Len(chatMessages) : chatMessages[j].userId = userId}}
PgMessagesOf(userId) ==
    {RecordOf(MessageCol, r) : r \in {q \in chat_messages_tbl : q.user_id = userId}}

\* list holds exactly the records of stored, each once, in non-decreasing
\* timestamp order, records of equal timestamp in the order of their creation
\* (ids are assigned in creation order)
OrderedListOf(list, stored) ==
    /\ Len(list) = Cardinality(stored)
    /\ {list[i] : i \in 1..Len(list)} = stored
    /\ \A i, j \in 1..Len(list) :
           i < j => /\ GetTime(list[i].timestamp) <= GetTime(list[j].timestamp)
                    /\ GetTime(list[i].timestamp) = GetTime(list[j].timestamp)
                           => list[i].id < list[j].id

\* C9: getChatMessages(userId) returns exactly the stored messages of userId,
\* each once, in non-decreasing timestamp order, messages of equal timestamp in
\* the order in which they were created, on both backends.
C9_OrderingLaw ==
    (call.op = "getChatMessages" /\ ~call.limit.given) =>
        /\ OrderedListOf(memRes.val, MemMessagesOf(call.userId))
        /\ OrderedListOf(pgRes.val, PgMessagesOf(call.userId))

\* the same law of MemStorage alone
C9_OrderingLawMem ==
    (call.op = "getChatMessages" /\ ~call.limit.given) =>
        OrderedListOf(memRes.val, MemMessagesOf(call.userId))

\* the last min(limit, n) elements of the n-element list full for a positive
\* limit, the whole list for an absent, zero or negative one
LastOf(full, limit) ==
    IF limit.given /\ limit.n > 0
    THEN SubSeq(full,
                IF limit.n < Len(full) THEN Len(full) - limit.n + 1 ELSE 1,
                Len(full))
    ELSE full

\* what getChatMessages(userId) without a limit returns in the current state
MemUnrestricted(userId) ==
    LET filtered == SelectSeq(chatMessages, LAMBDA message : message.userId = userId)
    IN SortBy(filtered, TimesOf(filtered, "timestamp"))
PgUnrestricted(userId) ==
    {LET messages == [i \in 1..Len(result) |-> RecordOf(MessageCol, result[i])]
     IN SortBy(messages, TimesOrZeroOf(messages, "timestamp")) :
        result \in Orders({r \in chat_messages_tbl : r.user_id = userId})}

\* C10: getChatMessages(userId, limit) returns the last min(limit, n) elements of
\* the n-element result of getChatMessages(userId) for a positive limit, and the
\* full result for an absent, zero or negative limit, on both backends.
C10_LimitLaw ==
    call.op = "getChatMessages" =>
        /\ memRes.val = LastOf(MemUnrestricted(call.userId), call.limit)
        /\ \E full \in PgUnrestricted(call.userId) :
               pgRes.val = LastOf(full, call.limit)

\* the same law of PostgresStorage alone
C10_LimitLawPg ==
    call.op = "getChatMessages" =>
        \E full \in PgUnrestricted(call.userId) : pgRes.val = LastOf(full, call.limit)

\* the fields that another call wrote to the record while the update was
\* suspended, that the update does not set itself, with a value other than the
\* one its lookup had returned
OverwrittenFields(race) ==
    {f \in DOMAIN race.meanwhile \ DOMAIN race.data :
        race.meanwhile[f] # race.existing[f]}

\* an updateFinancialProfile went on in the last step, after another call had
\* changed other fields of the profile it had looked up
Raced(race) ==
    /\ race.op = "updateFinancialProfile"
    /\ race.existing # Null
    /\ OverwrittenFields(race) # {}

\* C7 (as claimed): on both backends, when two overlapping updateFinancialProfile
\* calls for one user change different fields and the second writes between the
\* lookup and the write of the first, the stored profile afterwards lacks the
\* field change of the second (last writer wins).
C7_LostUpdateOnBothBackends ==
    /\ Raced(memRace) =>
           \A f \in OverwrittenFields(memRace) :
               MapGet(financialProfiles, memRace.key)[f] # memRace.meanwhile[f]
    /\ Raced(pgRace) =>
           \A r \in PgProfileRows(pgRace.key) :
               \A f \in OverwrittenFields(pgRace) :
                   r[ProfileCol[f]] # pgRace.meanwhile[f]

\* C7 (amended): in MemStorage the write of the first call stores the fields it
\* had looked up, so the change of the second is lost; in PostgresStorage the
\* UPDATE sets only the columns of its own update data, so every field written
\* meanwhile by the other call is still stored.
C7_LostUpdateInMemoryOnly ==
    /\ Raced(memRace) =>
           \A f \in OverwrittenFields(memRace) :
               /\ MapGet(financialProfiles, memRace.key)[f] = memRace.existing[f]
               /\ MapGet(financialProfiles, memRace.key)[f] # memRace.meanwhile[f]
    /\ pgRace.op = "updateFinancialProfile" =>
           \A r \in PgProfileRows(pgRace.key) :
               \A f \in DOMAIN pgRace.meanwhile \ DOMAIN pgRace.data :
                   r[ProfileCol[f]] = pgRace.meanwhile[f]

\* on both backends an update went on after the other caller's update of another
\* field had been written
C7_Witness == Raced(memRace) /\ Raced(pgRace)

\* C8 (as claimed): in MemStorage nothing of another call happens between the
\* lookup and the Map write of updateFinancialProfile and updateFinancialGoal.
C8_NothingBetweenLookupAndWrite ==
    memRace.op # "none" => DOMAIN memRace.meanwhile = {} /\ ~memRace.deleted

\* the record MemStorage stores under the key of a suspended update
MemStored(race) ==
    IF race.op = "updateFinancialProfile"
    THEN MapGet(financialProfiles, race.key)
    ELSE MapGet(financialGoals, race.key)

\* C8 (amended): in MemStorage only updateFinancialProfile and updateFinancialGoal
\* suspend, once, between their lookup and their Map write; other calls run in
\* between, and the write then stores the record as looked up before merged with
\* the update data (with a fresh updatedAt for a profile), whatever was written
\* to it meanwhile.
C8_WriteStoresLookedUpRecord ==
    /\ \A c \in Callers :
           memPending[c] # Idle =>
               memPending[c].op \in {"updateFinancialProfile", "updateFinancialGoal"}
    /\ (memRace.op = "updateFinancialProfile" /\ memRace.existing # Null) =>
           MemStored(memRace) = Spread(Spread(memRace.existing, memRace.data),
                                       [updatedAt |-> Date(now)])
    /\ (memRace.op = "updateFinancialGoal" /\ memRace.existing # Null) =>
           MemStored(memRace) = Spread(memRace.existing, memRace.data)

\* an updateFinancialGoal went on after another call had written the goal
C8_Witness ==
    /\ memRace.op = "updateFinancialGoal"
    /\ memRace.existing # Null
    /\ OverwrittenFields(memRace) # {}

\* new is old with exactly the fields of data set to the values of data
MergedInto(old, data, new) ==
    /\ DOMAIN new = DOMAIN old
    /\ \A f \in DOMAIN old : new[f] = (IF f \in DOMAIN data THEN data[f] ELSE old[f])

\* the goals a backend stores
MemGoals == {financialGoals[i] : i \in 1..Len(financialGoals)}
PgGoals == {RecordOf(GoalCol, r) : r \in financial_goals_tbl}

\* what an updateFinancialGoal(id, data) step does to the goals `before`, leaving
\* `after` and answering res
GoalUpdated(before, after, res, id, data) ==
    IF \E g \in before : g.id = id
    THEN /\ res.kind = "value"
         /\ res.val \in after
         /\ \A g \in before : g.id = id => MergedInto(g, data, res.val)
         /\ {g \in after : g.id = id} = {res.val}
         /\ {g \in after : g.id # id} = {g \in before : g.id # id}
    ELSE /\ res.kind = "undefined"
         /\ after = before

\* C11: updateFinancialGoal(id, partial) on a stored goal sets exactly the fields
\* of partial to the values supplied, keeps every other field of the goal (id and
\* createdAt among them) and every other goal, and returns the goal as stored; on
\* an id not stored it returns not-found and changes nothing. Both backends, every
\* call awaited before the next.
C11_PartialMergeLaw ==
    [][UpdateFinancialGoal =>
          /\ GoalUpdated(MemGoals, MemGoals', memRes', call'.id, call'.data)
          /\ Len(financialGoals') = Len(financialGoals)
          /\ goalIdCounter' = goalIdCounter
          /\ GoalUpdated(PgGoals, PgGoals', pgRes', call'.id, call'.data)
          /\ financial_goals_id_seq' = financial_goals_id_seq]_vars

\* updateFinancialGoal(id, {title: "Car"}) has changed the title of one of two
\* stored goals on both backends, the other goal keeping its own
C11_Witness ==
    /\ call.op = "updateFinancialGoal"
    /\ call.data = [title |-> "Car"]
    /\ memRes.kind = "value" /\ pgRes.kind = "value"
    /\ memRes.val.title = "Car" /\ memRes.val.currentAmount = "0.00"
    /\ \E g \in MemGoals : g.id # call.id /\ g.title = "Emergency Fund"
    /\ \E g \in PgGoals : g.id # call.id /\ g.title = "Emergency Fund"

\* the profiles a backend stores
MemProfiles == {financialProfiles[i] : i \in 1..Len(financialProfiles)}
PgProfiles == {RecordOf(ProfileCol, r) : r \in financial_profiles_tbl}

\* what an updateFinancialProfile(userId, data) step at time t answers and
\* stores, the profiles being `before` when it starts and `after` when it returns
ProfileUpdated(before, after, res, userId, data, t) ==
    IF \E p \in before : p.userId = userId
    THEN /\ res.kind = "value"
         /\ res.val \in after
         /\ res.val.updatedAt = Date(t)
         /\ \E p \in before :
                /\ p.userId = userId
                /\ MergedInto(NoTime(p), data, NoTime(res.val))
                /\ GetTime(res.val.updatedAt) >= GetTime(p.updatedAt)
    ELSE /\ res.kind = "undefined"
         /\ after = before

\* C12: updateFinancialProfile(userId, partial) returns not-found and changes
\* nothing when no stored profile has owner userId; otherwise it returns, and has
\* stored, a profile of that user with the fields of partial overwritten, every
\* other field kept and updatedAt set to the time of the call, which is not
\* earlier than the one it had. Both backends, every call awaited before the next.
C12_UpdateProfileMerges ==
    [][UpdateFinancialProfile =>
          /\ ProfileUpdated(MemProfiles, MemProfiles', memRes',
                            call'.userId, call'.data, now)
          /\ ProfileUpdated(PgProfiles, PgProfiles', pgRes',
                            call'.userId, call'.data, now)]_vars

\* a profile created at time 1 was updated at time 2 with a new monthly income
\* only, on both backends
C12_Witness ==
    /\ call.op = "updateFinancialProfile"
    /\ call.data = [monthlyIncome |-> "2000.00"]
    /\ memRes.kind = "value" /\ pgRes.kind = "value"
    /\ memRes.val.monthlyIncome = "2000.00" /\ memRes.val.riskTolerance = "low"
    /\ pgRes.val.monthlyIncome = "2000.00" /\ pgRes.val.riskTolerance = "low"
    /\ memRes.val.updatedAt = Date(2) /\ pgRes.val.updatedAt = Date(2)
    /\ now = 2

\* the lookup key of the last call is one that no createUser recorded in
\* `created` ever stored
NeverStored(created) ==
    \/ /\ call.op = "getUser"
       /\ \A i \in 1..Len(created) : created[i].id # call.id
    \/ /\ call.op = "getUserByUsername"
       /\ \A i \in 1..Len(created) : created[i].data.username # call.username
    \/ /\ call.op = "getUserByEmail"
       /\ \A i \in 1..Len(created) : created[i].data.email # call.email

\* C13: getUser, getUserByUsername and getUserByEmail return the not-found result,
\* and do not raise, for every id, username or email that no createUser ever
\* stored, in every reachable state of both backends.
C13_NotFoundLookups ==
    /\ NeverStored(memCreated) => memRes.kind = "undefined"
    /\ NeverStored(pgCreated) => pgRes.kind = "undefined"

\* getUserByUsername of a name never registered answered not-found by both
\* backends while users are stored
C13_Witness ==
    /\ call.op = "getUserByUsername"
    /\ call.username = NeverUsername
    /\ Len(memCreated) >= 1 /\ Len(pgCreated) >= 1
    /\ memRes.kind = "undefined" /\ pgRes.kind = "undefined"

\* the messages a backend stores
MemMessages == {chatMessages[i] : i \in 1..Len(chatMessages)}
PgMessages == {RecordOf(MessageCol, r) : r \in chat_messages_tbl}

\* every record of owned has the id of a user of stored as its userId
OwnedBy(owned, stored) == \A r \in owned : \E u \in stored : u.id = r.userId

\* C14: every stored FinancialProfile, ChatMessage and FinancialGoal has the id
\* of a stored User as its userId, in every reachable state of either backend.
C14_OwnershipInvariant ==
    /\ OwnedBy(MemProfiles \cup MemMessages \cup MemGoals, MemUsers)
    /\ OwnedBy(PgProfiles \cup PgMessages \cup PgGoals, PgUsers)

\* the same invariant of PostgresStorage alone, kept by the REFERENCES users(id)
\* of the three tables
C14_OwnershipInvariantPg ==
    OwnedBy(PgProfiles \cup PgMessages \cup PgGoals, PgUsers)

RecordOps ==
    {"getUser", "getUserByUsername", "getUserByEmail", "getFinancialProfile",
     "updateFinancialProfile", "getFinancialGoal", "updateFinancialGoal"}
CreateOps ==
    {"createUser", "createFinancialProfile", "createChatMessage", "createFinancialGoal"}

\* the answer of MemStorage to the last call is of the kind its operation
\* promises: a record or not-found, a new record, a list, a boolean
MemCompleted ==
    /\ memRes.kind # "throw"
    /\ call.op \in RecordOps =>
           \/ memRes.kind = "undefined"
           \/ memRes.kind = "value" /\ "id" \in DOMAIN memRes.val
    /\ call.op \in CreateOps => memRes.kind = "value" /\ "id" \in DOMAIN memRes.val
    /\ call.op \in ListOps =>
           /\ memRes.kind = "value"
           /\ memRes.val \in Seq(MemMessages \cup MemGoals)
    /\ call.op = "deleteFinancialGoal" =>
           memRes.kind = "value" /\ memRes.val \in BOOLEAN

PgStored == <<users_tbl, financial_profiles_tbl, chat_messages_tbl, financial_goals_tbl>>

\* C16: when the database call of a PostgresStorage operation fails, the
\* operation fails to its caller with that same error, and whenever an operation
\* fails (a rejected query, a UNIQUE or REFERENCES violation) the rows of the
\* tables are the same as before it started.
C16_ErrorsRethrown ==
    /\ [][DatabaseCallFails => pgRes' = Throw(call'.dbError)]_vars
    /\ [][pgRes'.kind = "throw" => PgStored' = PgStored]_vars

\* deleteFinancialGoal of a stored goal failed with the error of the database,
\* the goal still being stored
C16_Witness ==
    /\ call.op = "deleteFinancialGoal"
    /\ "dbError" \in DOMAIN call
    /\ pgRes = Throw("connection_error")
    /\ PgHasGoal(call.id)

\* a step of one of the read operations
ReadStep ==
    \/ GetUser \/ GetUserByUsername \/ GetUserByEmail
    \/ GetFinancialProfile
    \/ GetChatMessages
    \/ GetFinancialGoals \/ GetFinancialGoal

\* what each backend stores, and its id counters
MemMaps == <<users, financialProfiles, chatMessages, financialGoals>>
MemCounters == <<userIdCounter, profileIdCounter, messageIdCounter, goalIdCounter>>
PgCounters ==
    <<users_id_seq, financial_profiles_id_seq, chat_messages_id_seq,
      financial_goals_id_seq>>

\* the answer to getFinancialGoal(id) that the stored goals determine
GoalAnswer(goals, id) ==
    IF \E g \in goals : g.id = id
    THEN Value(CHOOSE g \in goals : g.id = id)
    ELSE Undefined

\* C17: getFinancialGoal(id) called again with no mutating operation in between
\* returns an equal result (its answer is the one the stored goals determine, and
\* a repeated call answers as the call before it), and no read operation changes
\* the stored data or an id counter, on either backend.
C17_ReadsIdempotent ==
    /\ [](call.op = "getFinancialGoal" =>
              /\ memRes = GoalAnswer(MemGoals, call.id)
              /\ pgRes = GoalAnswer(PgGoals, call.id))
    /\ [][(GetFinancialGoal /\ call.op = "getFinancialGoal" /\ call'.id = call.id) =>
              (memRes' = memRes /\ pgRes' = pgRes)]_vars
    /\ [][ReadStep =>
              /\ MemMaps' = MemMaps /\ MemCounters' = MemCounters
              /\ PgStored' = PgStored /\ PgCounters' = PgCounters]_vars

\* getFinancialGoal of a stored goal answered with that goal by both backends,
\* after another goal was deleted
C17_Witness ==
    /\ call.op = "getFinancialGoal"
    /\ memRes.kind = "value" /\ pgRes.kind = "value"
    /\ memRes.val.id = call.id /\ pgRes.val.id = call.id
    /\ memDeleted # {} /\ pgDeleted # {}

\* the answer to getFinancialProfile(userId) when it is the earliest-created
\* profile of the user (ids are assigned in creation order), or not-found
EarliestProfile(profiles, userId) ==
    LET own == {p \in profiles : p.userId = userId}
    IN IF own = {} THEN Undefined
       ELSE Value(CHOOSE p \in own : \A q \in own : p.id <= q.id)

\* a createFinancialProfile for a user who has a profile already has succeeded
FurtherProfileCreated(profiles, res) ==
    (/\ call.op = "createFinancialProfile"
     /\ \E p \in profiles : p.userId = call.data.userId /\ (res.kind = "value" => p.id # res.val.id))
        => res.kind = "value"

\* C18: getFinancialProfile(userId) returns the earliest-created stored profile
\* of userId, or not-found when there is none; a further createFinancialProfile
\* for the same user succeeds and getFinancialProfile keeps returning the
\* earliest one. Both backends.
C18_EarliestProfile ==
    /\ call.op = "getFinancialProfile" =>
           /\ memRes = EarliestProfile(MemProfiles, call.userId)
           /\ pgRes = EarliestProfile(PgProfiles, call.userId)
    /\ FurtherProfileCreated(MemProfiles, memRes)
    /\ FurtherProfileCreated(PgProfiles, pgRes)

\* the same law of MemStorage alone
C18_EarliestProfileMem ==
    /\ call.op = "getFinancialProfile" =>
           memRes = EarliestProfile(MemProfiles, call.userId)
    /\ FurtherProfileCreated(MemProfiles, memRes)

\* list holds exactly the goals of stored, each once, those without a creation
\* timestamp first and the others in non-decreasing order of it
GoalListOf(list, stored) ==
    /\ Len(list) = Cardinality(stored)
    /\ {list[i] : i \in 1..Len(list)} = stored
    /\ \A i, j \in 1..Len(list) :
           i < j =>
               \/ list[i].createdAt = Null
               \/ /\ list[j].createdAt # Null
                  /\ GetTime(list[i].createdAt) <= GetTime(list[j].createdAt)

IdsOf(records) == {r.id : r \in records}

\* the ids of the records of `before` that are absent from `after`
Removed(before, after) == IdsOf(before) \ IdsOf(after)

\* C20: no operation alters or removes a stored ChatMessage, none removes a User
\* or a FinancialProfile, and a stored FinancialGoal is absent after a step only
\* if the step is a deleteFinancialGoal of its id. Both backends.
C20_OnlyGoalsAreRemoved ==
    [][/\ MemMessages \subseteq MemMessages'
       /\ PgMessages \subseteq PgMessages'
       /\ Removed(MemUsers, MemUsers') = {} /\ Removed(PgUsers, PgUsers') = {}
       /\ Removed(MemProfiles, MemProfiles') = {}
       /\ Removed(PgProfiles, PgProfiles') = {}
       /\ Removed(MemGoals, MemGoals') \cup Removed(PgGoals, PgGoals')
              \subseteq (IF memRace' = NoRace /\ DeleteFinancialGoal
                          THEN {call'.id} ELSE {})]_vars

\* a deleteFinancialGoal has removed a goal while users, a profile and two
\* messages are stored on both backends
C20_Witness ==
    /\ call.op = "deleteFinancialGoal"
    /\ memRes = Value(TRUE) /\ pgRes = Value(TRUE)
    /\ Len(users) >= 1 /\ users_tbl # {}
    /\ Len(financialProfiles) >= 1 /\ financial_profiles_tbl # {}
    /\ Len(chatMessages) >= 2 /\ Cardinality(chat_messages_tbl) >= 2


\* C21: the handle is bound at startup to the in-memory backend iff the flag
\* is exactly 'true' and to the relational backend otherwise, and no step, an
\* operation or a later change of the environment, binds it again.
C21_StorageChosenOnce ==
    /\ storage = (IF USE_MEMORY_STORAGE = Env("true")
                  THEN "MemStorage" ELSE "PostgresStorage")
    /\ [][storage' = storage]_vars

\* the in-memory backend was selected and has served a create and a delete
C21_Witness ==
    /\ storage = "MemStorage"
    /\ memDeleted # {}
    /\ call.op = "getFinancialGoal"

\* C22: generateFinanceResponse never raises: whichever model is selected and
\* however the request ends (not made for want of a key, rejected without a
\* response, answered with a non-2xx status, or answered), the call returns
\* a string.
C22_NeverRaises ==
    aiCall.op = "generateFinanceResponse" =>
        aiRes.kind = "value" /\ aiRes.val \in STRING

\* each of the three failures has just happened, for the deepseek selector:
\* here the non-2xx response, turned into text
C22_Witness ==
    /\ aiCall.op = "generateFinanceResponse"
    /\ aiCall.model = "deepseek"
    /\ aiCall.requested
    /\ aiCall.outcome.kind = "rejected"
    /\ "response" \in DOMAIN aiCall.outcome.error
    /\ aiCall.outcome.error.response.status = 500
    /\ aiRes = Value("I'm having trouble generating a response: Deepseek API error: 500 - {\"message\":\"overloaded\"}")

\* the frame of an updateFinancialProfile(userId, ...) step, the profiles being
\* `before` when it starts and `after` when it returns: at most one profile,
\* the one looked up, has a field changed, and no profile of another user has
ProfileFrame(before, after, userId) ==
    /\ Cardinality(before \ after) <= 1
    /\ \A p \in before : p.userId # userId => p \in after

\* C23: updateFinancialProfile(userId, partial) modifies only the one profile
\* that getFinancialProfile(userId) returns: every other profile of the user
\* and every profile of another user keeps all its field values, on both
\* backends.
C23_UpdateProfileFrame ==
    [][UpdateFinancialProfile =>
          /\ ProfileFrame(MemProfiles, MemProfiles', call'.userId)
          /\ ProfileFrame(PgProfiles, PgProfiles', call'.userId)]_vars

\* the in-memory half of C23, with the profile looked up named: every profile
\* but the first of the user in insertion order is stored unchanged
C23_UpdateProfileFrameMem ==
    [][UpdateFinancialProfile =>
          \A p \in MemProfiles :
              p # MemFindProfile(call'.userId) => p \in MemProfiles']_vars

\* in list no record without <field> comes after a record that has it, and the
\* records that have it are in non-decreasing order of it
MissingFirst(list, field) ==
    \A i, j \in 1..Len(list) :
        i < j =>
            \/ list[i][field] = Null
            \/ /\ list[j][field] # Null
               /\ GetTime(list[i][field]) <= GetTime(list[j][field])

\* C24: in the lists PostgresStorage.getChatMessages and getFinancialGoals
\* return, a record with a null timestamp never comes after a record with a
\* non-null one, whatever instant that is (before the Unix epoch too), and the
\* records with timestamps are in chronological order.
C24_NullTimestampsFirst ==
    /\ call.op = "getChatMessages" => MissingFirst(pgRes.val, "timestamp")
    /\ call.op = "getFinancialGoals" => MissingFirst(pgRes.val, "createdAt")

\* as MissingFirst, for the records whose <field> is missing or not before the
\* Unix epoch; and the records that have <field> are in chronological order
MissingFirstSinceEpoch(list, field) ==
    \A i, j \in 1..Len(list) :
        i < j =>
            \/ list[i][field] = Null /\ list[j][field] = Null
            \/ list[i][field] = Null /\ GetTime(list[j][field]) >= 0
            \/ list[j][field] = Null /\ GetTime(list[i][field]) < 0
            \/ /\ list[i][field] # Null /\ list[j][field] # Null
               /\ GetTime(list[i][field]) <= GetTime(list[j][field])

\* what holds of the two listings: a null timestamp is placed as the epoch is
C24_NullTimestampsAsEpoch ==
    /\ call.op = "getChatMessages" => MissingFirstSinceEpoch(pgRes.val, "timestamp")
    /\ call.op = "getFinancialGoals" => MissingFirstSinceEpoch(pgRes.val, "createdAt")

\* C25: in MemStorage a goal whose deleteFinancialGoal returned true stays
\* absent when an updateFinancialGoal of it that had done its lookup before
\* the delete completes afterwards: the update does not store the goal again,
\* getFinancialGoal of it answers not-found and deleteFinancialGoal of it
\* never returns true a second time.
C25_DeletedGoalStaysAbsent ==
    /\ \A id \in memDeleted : ~MapHas(financialGoals, id)
    /\ memRedeleted = {}
    /\ (memRace = NoRace /\ call.op = "getFinancialGoal" /\ call.id \in memDeleted)
           => memRes = Undefined

\* the same of PostgresStorage, whose update is one UPDATE statement
C25_DeletedGoalStaysAbsentPg ==
    /\ \A id \in pgDeleted : ~PgHasGoal(id)
    /\ pgRedeleted = {}
    /\ (memRace = NoRace /\ call.op = "getFinancialGoal" /\ call.id \in pgDeleted)
           => pgRes = Undefined
====
